---- MODULE Spec2Model ----
(***************************************************************************)
(* Authentication and session subsystem of the art-collector application:  *)
(* the request gate (src/src/middleware.ts), refresh-token rotation        *)
(* (src/src/app/utils/refresh-token.ts), login, lockout and OTP redemption *)
(* (src/src/app/(actions)/login/*.ts) and the two client handlers that     *)
(* drive them.  Every server action is split at its awaits on the store,   *)
(* so that concurrent requests interleave exactly where the code lets      *)
(* them.                                                                   *)
(*                                                                         *)
(* Time is an integer clock on an ordinal scale: the token lifetimes keep  *)
(* their order (15 s < 10 min < 15 min < 14 d), not their ratio.           *)
(***************************************************************************)
EXTENDS Integers, Sequences, FiniteSets, TLC

\* ------------------------------------------------------------------ bounds
MaxTime == 4
MaxJti == 3

\* ------------------------------------------------- token lifetimes (ordinal)
AccessTTL == 3
RefreshTTL == 4
AccessTTLRefresh == 1
RefreshTTLRefresh == 2
\* the store's default for refresh_tokens.expires_at, when the schema has one
RowTTL == 2

Procs == {1, 2}
UserIds == {"u1", "u2"}
EmailOf(u) == IF u = "u1" THEN "a@x.com" ELSE "b@x.com"
Emails == {EmailOf(u) : u \in UserIds}
\* result.email of a failed validateUser: the property is absent
Undefined == "undefined"

VARIABLES
  now,              \* Date.now()
  storeUp,          \* whether the store answers; FALSE: every call returns {data: null, error}
  expiresDefault,   \* what the store puts in refresh_tokens.expires_at of a new row
  users,            \* table users
  refresh_tokens,   \* table refresh_tokens, by id
  nextJti,          \* crypto.randomUUID(): ids handed out so far
  minted,           \* every token signed with JWT_SECRET and handed to some client
  call,             \* the requests in flight (middleware, refreshAccessToken)
  rotatedOk,        \* refresh tokens for which refreshAccessToken has returned success
  login_attempts,   \* table login_attempts, by email
  email_verifications, \* table email_verifications, in insertion order
  sess              \* the browser sessions: the modal's state and the server action in flight

gateVars == <<refresh_tokens, nextJti, minted, call, rotatedOk>>
loginVars == <<login_attempts, email_verifications, sess>>
envVars == <<now, storeUp, expiresDefault, users, loginVars>>
vars == <<now, storeUp, expiresDefault, users, refresh_tokens, nextJti, minted,
          call, rotatedOk, login_attempts, email_verifications, sess>>

\* ------------------------------------------------------------------ tokens
NoJti == 0
NoToken == [kind |-> "none", userId |-> "-", jti |-> NoJti, exp |-> 0]
Garbage == [kind |-> "garbage", userId |-> "-", jti |-> NoJti, exp |-> 0]
Sign(userId, jti, ttl) ==
  [kind |-> "jwt", userId |-> userId, jti |-> jti, exp |-> now + ttl]

\* jose's jwtVerify: the signature matches and the exp claim is still ahead
JwtVerify(tok) == tok.kind = "jwt" /\ now < tok.exp

\* ------------------------------------------------------------- the store
NoRow == [present |-> FALSE, user_id |-> "-", revoked |-> FALSE,
          expires_at |-> [k |-> "null", t |-> 0]]
ExpNull == [k |-> "null", t |-> 0]
ExpInvalid == [k |-> "invalid", t |-> 0]
ExpAt(t) == [k |-> "ts", t |-> t]

\* the expires_at a freshly inserted row gets: the code never sets the column
DefaultExpiry ==
  CASE expiresDefault = "ttl" -> ExpAt(now + RowTTL)
    [] expiresDefault = "null" -> ExpNull
    [] OTHER -> ExpInvalid

NewRow(userId) ==
  [present |-> TRUE, user_id |-> userId, revoked |-> FALSE,
   expires_at |-> DefaultExpiry]

\* .from("refresh_tokens").select("*").eq("id", jti).eq("user_id", userId).single()
SelectRefreshToken(jti, userId) ==
  IF storeUp /\ jti \in DOMAIN refresh_tokens
     /\ refresh_tokens[jti].present /\ refresh_tokens[jti].user_id = userId
  THEN refresh_tokens[jti]
  ELSE NoRow

\* .from("refresh_tokens").insert([{ user_id, id }])
InsertRefreshToken(tbl, jti, userId) ==
  IF storeUp /\ jti \in DOMAIN tbl /\ ~tbl[jti].present
  THEN [tbl EXCEPT ![jti] = NewRow(userId)]
  ELSE tbl

\* the update left out
RevokeNothing(tbl, jti) == tbl

\* the update without its .eq("id", jti) filter
RevokeEveryRow(tbl, jti) ==
  IF storeUp
  THEN [j \in DOMAIN tbl |->
          IF tbl[j].present THEN [tbl[j] EXCEPT !.revoked = TRUE] ELSE tbl[j]]
  ELSE tbl

\* .from("refresh_tokens").update({ revoked: true }).eq("id", jti)
RevokeRefreshToken(tbl, jti) ==
  IF storeUp /\ jti \in DOMAIN tbl /\ tbl[jti].present
  THEN [tbl EXCEPT ![jti].revoked = TRUE]
  ELSE tbl

\* new Date(x).getTime(): null is the epoch, anything unparseable is NaN
GetTime(x) ==
  CASE x.k = "ts" -> [nan |-> FALSE, v |-> x.t]
    [] x.k = "null" -> [nan |-> FALSE, v |-> 0]
    [] OTHER -> [nan |-> TRUE, v |-> 0]
\* a comparison with NaN is false whichever way it is asked
Lte(a, b) == ~a.nan /\ a.v <= b
Gt(a, b) == ~a.nan /\ a.v > b

RevokedIds == {j \in DOMAIN refresh_tokens :
                 refresh_tokens[j].present /\ refresh_tokens[j].revoked}

\* .from("users").select(...).eq("email", email).maybeSingle()
SelectUserByEmail(email) ==
  IF storeUp /\ \E u \in UserIds : users[u].present /\ users[u].email = email
  THEN CHOOSE u \in UserIds : users[u].present /\ users[u].email = email
  ELSE "-"

\* bcrypt.hash and bcrypt.compare
Hash(password) == [bcrypt |-> password]
BcryptCompare(password, hash) == hash.bcrypt = password

\* ---------------------------------------------------- requests in flight
Idle ==
  [op |-> "idle", pc |-> "idle", protected |-> FALSE,
   refresh |-> NoToken,
   accessOk |-> FALSE, refreshOk |-> FALSE, sawRevoked |-> FALSE,
   afterSuccess |-> FALSE, concurrent |-> FALSE, stillValid |-> FALSE,
   userId |-> "-", jti |-> NoJti, data |-> NoRow, jtiNew |-> NoJti,
   setAccess |-> NoToken, setRefresh |-> NoToken,
   read |-> FALSE, inserted |-> FALSE, revokedOld |-> FALSE,
   caller |-> "none", hadAccess |-> FALSE, hash |-> Hash(""),
   refreshed |-> FALSE, otpOk |-> FALSE, changed |-> FALSE, target |-> "-",
   refreshAsAccess |-> FALSE,
   outcome |-> "none"]

\* what a client can put in a cookie: nothing, junk, or any token it was handed
Cookies == minted \cup {NoToken, Garbage}

\* requests are numbered in the order they arrive
InOrder(p) == \A q \in Procs : q < p => call[q].op # "idle"

\* the requests that have started and not yet returned
InFlight == {q \in Procs : call[q].op # "idle" /\ call[q].pc # "done"}

\* the presented refresh token verifies and its record is there, not revoked
\* and not expired (what the request finds on arrival; recorded, not read)
RecordValid(tok) ==
  /\ JwtVerify(tok)
  /\ tok.jti \in DOMAIN refresh_tokens
  /\ refresh_tokens[tok.jti].present
  /\ refresh_tokens[tok.jti].user_id = tok.userId
  /\ ~refresh_tokens[tok.jti].revoked
  /\ Gt(GetTime(refresh_tokens[tok.jti].expires_at), now)

Finish(c, outcome) == [c EXCEPT !.pc = "done", !.outcome = outcome]

\* ------------------------------------------------------------ middleware
\* the gate with the access token tested before the refresh cookie
MwGateAccessFirst(protected, access, refresh) ==
  IF ~protected THEN "allow"
  ELSE IF access.kind # "none" /\ JwtVerify(access) THEN "allow"
  ELSE IF refresh.kind = "none" THEN "redirect"
  ELSE "refresh"

\* the gate without the access-token test: every request goes to the store
MwGateRefreshAlways(protected, access, refresh) ==
  IF ~protected THEN "allow"
  ELSE IF refresh.kind = "none" THEN "redirect"
  ELSE "refresh"

\* lines 15-43: the path test, the refresh-cookie test, the access-token test
MwGate(protected, access, refresh) ==
  IF ~protected THEN "allow"
  ELSE IF refresh.kind = "none" THEN "redirect"
  ELSE IF access.kind # "none" /\ JwtVerify(access) THEN "allow"
  ELSE "refresh"

MwStart(p) ==
  /\ call[p].op = "idle"
  /\ InOrder(p)
  /\ \E protected \in BOOLEAN, access \in Cookies, refresh \in Cookies :
       LET c0 == [Idle EXCEPT !.op = "mw", !.protected = protected,
                              !.refresh = refresh,
                              !.accessOk = JwtVerify(access),
                              !.refreshAsAccess = (access.kind = "jwt"
                                                   /\ access.jti # NoJti),
                              !.refreshOk = RecordValid(refresh),
                              !.sawRevoked = refresh.jti \in RevokedIds,
                              !.concurrent = InFlight # {}]
           g == MwGate(protected, access, refresh)
       IN call' = [call EXCEPT ![p] =
             CASE g = "allow" -> Finish(c0, "allow")
               [] g = "redirect" -> Finish(c0, "redirect")
               [] OTHER ->
                  \* line 46: jwtVerify(refresh) throws into the catch of line 112
                  IF JwtVerify(refresh)
                  THEN [c0 EXCEPT !.pc = "read", !.userId = refresh.userId,
                                  !.jti = refresh.jti]
                  ELSE Finish(c0, "redirect")]
  /\ UNCHANGED <<envVars, refresh_tokens, nextJti, minted, rotatedOk>>

\* lines 51-56
MwRead(p) ==
  /\ call[p].op = "mw" /\ call[p].pc = "read"
  /\ call' = [call EXCEPT ![p].data = SelectRefreshToken(call[p].jti, call[p].userId),
                          ![p].read = TRUE, ![p].pc = "check1"]
  /\ UNCHANGED <<envVars, refresh_tokens, nextJti, minted, rotatedOk>>

\* lines 58-63: no row, or a row that has expired
MwRefuses(data) ==
  \/ ~data.present
  \/ Lte(GetTime(data.expires_at), now)

\* lines 58-65
MwCheck1(p) ==
  /\ call[p].op = "mw" /\ call[p].pc = "check1"
  /\ IF MwRefuses(call[p].data)
     THEN /\ call' = [call EXCEPT ![p] = Finish(call[p], "redirect")]
          /\ UNCHANGED nextJti
     ELSE /\ nextJti < MaxJti
          /\ nextJti' = nextJti + 1
          /\ call' = [call EXCEPT ![p].jtiNew = nextJti + 1, ![p].pc = "check2"]
  /\ UNCHANGED <<envVars, refresh_tokens, minted, rotatedOk>>

\* line 67: the second reading of the clock
MwStillValid(data) == Gt(GetTime(data.expires_at), now)

\* lines 67-98: sign the pair and put it on the response; when the test of
\* line 67 fails the function runs off its end and returns undefined
MwCheck2(p) ==
  /\ call[p].op = "mw" /\ call[p].pc = "check2"
  /\ call' = [call EXCEPT ![p] =
       IF MwStillValid(call[p].data)
       THEN [call[p] EXCEPT
               !.stillValid = TRUE,
               !.setAccess = Sign(call[p].data.user_id, call[p].jtiNew, AccessTTL),
               !.setRefresh = Sign(call[p].data.user_id, call[p].jtiNew, RefreshTTL),
               !.pc = "insert"]
       ELSE Finish(call[p], "nodecision")]
  /\ UNCHANGED <<envVars, refresh_tokens, nextJti, minted, rotatedOk>>

\* lines 100-102
MwInsert(p) ==
  /\ call[p].op = "mw" /\ call[p].pc = "insert"
  /\ refresh_tokens' = InsertRefreshToken(refresh_tokens, call[p].jtiNew, call[p].userId)
  /\ call' = [call EXCEPT ![p].inserted = storeUp, ![p].pc = "revoke"]
  /\ UNCHANGED <<envVars, nextJti, minted, rotatedOk>>

\* lines 105-110
MwRevoke(p) ==
  /\ call[p].op = "mw" /\ call[p].pc = "revoke"
  /\ refresh_tokens' = RevokeRefreshToken(refresh_tokens, call[p].jti)
  /\ call' = [call EXCEPT ![p] = Finish([call[p] EXCEPT !.revokedOld = storeUp], "allow")]
  /\ minted' = minted \cup {call[p].setAccess, call[p].setRefresh}
  /\ UNCHANGED <<envVars, nextJti, rotatedOk>>

\* ---------------------------------------------------- refreshAccessToken
\* lines 16-27: the cookie, then jwtVerify inside the try
RfStart(p) ==
  /\ call[p].op = "idle"
  /\ InOrder(p)
  /\ \E refresh \in Cookies :
       LET c0 == [Idle EXCEPT !.op = "refresh", !.refresh = refresh,
                              !.refreshOk = RecordValid(refresh),
                              !.sawRevoked = refresh.jti \in RevokedIds,
                              !.afterSuccess = refresh \in rotatedOk,
                              !.concurrent = InFlight # {}]
       IN call' = [call EXCEPT ![p] =
             IF refresh.kind = "none" THEN Finish(c0, "norefresh")
             ELSE IF ~JwtVerify(refresh) THEN Finish(c0, "invalid")
             ELSE [c0 EXCEPT !.pc = "read", !.userId = refresh.userId,
                             !.jti = refresh.jti]]
  /\ UNCHANGED <<envVars, refresh_tokens, nextJti, minted, rotatedOk>>

\* lines 29-34
RfRead(p) ==
  /\ call[p].op = "refresh" /\ call[p].pc = "read"
  /\ call' = [call EXCEPT ![p].data = SelectRefreshToken(call[p].jti, call[p].userId),
                          ![p].read = TRUE, ![p].pc = "check"]
  /\ UNCHANGED <<envVars, refresh_tokens, nextJti, minted, rotatedOk>>

\* the decision without the test of the revoked flag
RfDecisionNoRevoked(data) ==
  IF ~data.present THEN "expired" ELSE "rotate"

\* lines 36-40
RfDecision(data) ==
  IF ~data.present THEN "expired"
  ELSE IF data.revoked THEN "revoked"
  ELSE "rotate"

\* lines 36-70: the two refusals, else a new id, a new pair, the two cookies
RfCheck(p) ==
  /\ call[p].op = "refresh" /\ call[p].pc = "check"
  /\ LET d == RfDecision(call[p].data) IN
     IF d # "rotate"
     THEN /\ call' = [call EXCEPT ![p] = Finish(call[p], d)]
          /\ UNCHANGED nextJti
     ELSE /\ nextJti < MaxJti
          /\ nextJti' = nextJti + 1
          /\ call' = [call EXCEPT
               ![p].jtiNew = nextJti + 1,
               ![p].setAccess = Sign(call[p].data.user_id, NoJti, AccessTTLRefresh),
               ![p].setRefresh = Sign(call[p].data.user_id, nextJti + 1, RefreshTTLRefresh),
               ![p].pc = "insert"]
  /\ UNCHANGED <<envVars, refresh_tokens, minted, rotatedOk>>

\* lines 72-78
RfInsert(p) ==
  /\ call[p].op = "refresh" /\ call[p].pc = "insert"
  /\ refresh_tokens' = InsertRefreshToken(refresh_tokens, call[p].jtiNew, call[p].userId)
  /\ call' = [call EXCEPT ![p].inserted = storeUp, ![p].pc = "revoke"]
  /\ UNCHANGED <<envVars, nextJti, minted, rotatedOk>>

\* lines 80-85
RfRevoke(p) ==
  /\ call[p].op = "refresh" /\ call[p].pc = "revoke"
  /\ refresh_tokens' = RevokeRefreshToken(refresh_tokens, call[p].jti)
  /\ call' = [call EXCEPT ![p] = Finish([call[p] EXCEPT !.revokedOld = storeUp], "ok")]
  /\ minted' = minted \cup {call[p].setAccess, call[p].setRefresh}
  /\ rotatedOk' = rotatedOk \cup {call[p].refresh}
  /\ UNCHANGED <<envVars, nextJti>>

\* ------------------------------------------------- generateLoginCookies
\* login-main.ts 186-235: the user by email, a new id, the pair, the row
GenerateLoginCookies(email) ==
  LET u == SelectUserByEmail(email) IN
  IF u = "-"
  THEN UNCHANGED <<refresh_tokens, nextJti, minted>>
  ELSE /\ nextJti < MaxJti
       /\ nextJti' = nextJti + 1
       /\ minted' = minted \cup {Sign(u, NoJti, AccessTTL),
                                  Sign(u, nextJti + 1, RefreshTTL)}
       /\ refresh_tokens' = InsertRefreshToken(refresh_tokens, nextJti + 1, u)

\* a login that has come through: the client holds a pair.  One login opens
\* the token family whose rotations, revocations and replays are followed.
LoginDone ==
  /\ nextJti = 0
  /\ \E email \in Emails : GenerateLoginCookies(email)
  /\ nextJti' # nextJti
  /\ UNCHANGED <<envVars, call, rotatedOk>>

\* ------------------------------------------------------------ logoutUser
\* login-main.ts 237-265: clear both cookies, then best-effort revoke
LogoutUser ==
  /\ \E refresh \in Cookies :
       /\ refresh.kind # "none"
       /\ JwtVerify(refresh)
       /\ refresh_tokens' = RevokeRefreshToken(refresh_tokens, refresh.jti)
  /\ refresh_tokens' # refresh_tokens
  /\ UNCHANGED <<envVars, nextJti, minted, call, rotatedOk>>

\* cookieData.set(name, "", { path: "/" }): the cookie holds the empty string
Emptied == [kind |-> "empty", userId |-> "-", jti |-> NoJti, exp |-> 0]

\* login-main.ts 237-265, the whole call with what it answers: both cookies
\* emptied, the update when the refresh cookie verifies (its error, like a
\* failed jwtVerify, is dropped), redirect("/")
LogoutCall(p) ==
  /\ call[p].op = "idle"
  /\ InOrder(p)
  /\ \E refresh \in Cookies :
       LET verifies == refresh.kind # "none" /\ JwtVerify(refresh)
           c0 == [Idle EXCEPT !.op = "logout", !.refresh = refresh,
                              !.refreshOk = RecordValid(refresh),
                              !.sawRevoked = refresh.jti \in RevokedIds,
                              !.concurrent = InFlight # {},
                              !.setAccess = Emptied, !.setRefresh = Emptied,
                              !.jti = IF verifies THEN refresh.jti ELSE NoJti,
                              !.revokedOld = verifies /\ storeUp]
       IN /\ refresh_tokens' =
               IF verifies THEN RevokeRefreshToken(refresh_tokens, refresh.jti)
               ELSE refresh_tokens
          /\ call' = [call EXCEPT ![p] = Finish(c0, "redirect")]
  /\ UNCHANGED <<envVars, nextJti, minted, rotatedOk>>

\* the store stops answering, or answers again
StoreFlip ==
  /\ storeUp' = ~storeUp
  /\ UNCHANGED <<now, expiresDefault, users, gateVars, loginVars>>

\* ================================================= login, lockout, OTP
\* ------------------------------------------------------------ bounds
MaxOtps == 3
MaxSubmits == 1

\* one tick of the clock in milliseconds, and the constants of the code
TickMs == 150000
MinuteMs == 60000
OtpTTL == 2
\* record_login_failure: the threshold and the window of the stored procedure
MaxAttempts == 5
LockWindow == 2

Sessions == {1, 2}
\* Math.floor(100000 + Math.random() * 900000)
Codes == {111111, 222222}
\* what is typed in the otp-code field
OtpFields == {"111111", "222222", "abc"}
\* what is typed in the email field; "" is an empty field
RawEmails == {"a@x.com", " A@X.COM ", "b@x.com", ""}
Passwords == {"pw-u1", "pw-u2", ""}
PasswordOf(u) == IF u = "u1" THEN "pw-u1" ELSE "pw-u2"
\* the passwords typed where a new password is chosen
NewPasswords == {"N3w-pass!", "weak", ""}

\* rawEmail?.trim().toLowerCase()
Normalize(raw) == IF raw \in {" A@X.COM ", "A@X.COM"} THEN "a@x.com" ELSE raw

NoLock == [present |-> FALSE, attempts |-> 0, locked |-> FALSE, locked_until |-> 0]
AttemptEmails == {"a@x.com", "b@x.com"}

\* .from("login_attempts").select("locked_until").eq("email", email).maybeSingle()
SelectLockRow(email) ==
  IF storeUp /\ email \in DOMAIN login_attempts THEN login_attempts[email]
  ELSE NoLock

\* the row read for the call holds a locked_until strictly in the future
LockAhead(lockRow) ==
  lockRow.present /\ lockRow.locked /\ now < lockRow.locked_until

\* the lock test comparing the wrong way round
LockedOutReversed(lockRow) ==
  lockRow.present /\ lockRow.locked /\ lockRow.locked_until < now

\* login-main.ts 104-108: there is a row, it has a lock, the lock is ahead
LockedOut(lockRow) ==
  lockRow.present /\ lockRow.locked /\ lockRow.locked_until > now

\* Math.ceil(ms / 60000), for any integer ms
CeilDiv(a, b) == IF a % b = 0 THEN a \div b ELSE (a \div b) + 1
\* login-main.ts 109-110
LockMinutes(lockRow) == CeilDiv((lockRow.locked_until - now) * TickMs, MinuteMs)

\* the stored procedure record_login_failure(p_email): one atomic statement
RecordLoginFailure(tbl, email) ==
  IF ~storeUp \/ email \notin DOMAIN tbl THEN tbl
  ELSE LET n == IF tbl[email].present /\ tbl[email].attempts < MaxAttempts
                THEN tbl[email].attempts + 1
                ELSE IF tbl[email].present THEN tbl[email].attempts ELSE 1
       IN [tbl EXCEPT ![email] =
             [present |-> TRUE, attempts |-> n,
              locked |-> IF n >= MaxAttempts THEN TRUE ELSE tbl[email].locked,
              locked_until |-> IF n >= MaxAttempts THEN now + LockWindow
                               ELSE tbl[email].locked_until]]

\* the update without locked_until: null
ResetAttemptsOnly(tbl, email) ==
  IF storeUp /\ email \in DOMAIN tbl /\ tbl[email].present
  THEN [tbl EXCEPT ![email].attempts = 0]
  ELSE tbl

\* login-main.ts 153-160: .update({attempts: 0, locked_until: null}).eq("email", email)
ResetLoginAttempts(tbl, email) ==
  IF storeUp /\ email \in DOMAIN tbl /\ tbl[email].present
  THEN [tbl EXCEPT ![email].attempts = 0, ![email].locked = FALSE,
                   ![email].locked_until = 0]
  ELSE tbl

\* .from("email_verifications").insert([{user_id, token, used: false, expires_at}])
InsertVerification(tbl, userId, token) ==
  IF storeUp
  THEN Append(tbl, [token |-> token, user_id |-> userId, used |-> FALSE,
                    expires_at |-> now + OtpTTL])
  ELSE tbl

NoUserRow == [present |-> FALSE, id |-> "-", email |-> "-",
              password_hash |-> Hash(""), email_verified |-> FALSE,
              twofa_enabled |-> FALSE]
\* login-main.ts 118-122
SelectUserDetails(email) ==
  LET u == SelectUserByEmail(email) IN
  IF u = "-" THEN NoUserRow ELSE [users[u] EXCEPT !.id = u]

\* the result of a server action, as the client sees it
NoResult == [set |-> FALSE, success |-> FALSE, error |-> "", OTP |-> 0,
             email |-> Undefined, twofa_enabled |-> FALSE, minutes |-> 0]
Failure(msg) == [NoResult EXCEPT !.set = TRUE, !.error = msg]

NoEv == [found |-> FALSE, error |-> FALSE, row |-> 0, user_id |-> "-",
         used |-> FALSE, expires_at |-> 0]

SessIdle ==
  [ui |-> "closed", loginDetails |-> NoResult, handler |-> "none",
   op |-> "none", pc |-> "idle", submits |-> 0,
   email |-> "", password |-> "", lockRow |-> NoLock, userDetails |-> NoUserRow,
   code |-> 0, ev |-> NoEv, otpUser |-> "-",
   result |-> NoResult,
   sawLock |-> FALSE, compared |-> FALSE, didReset |-> FALSE, didOtp |-> FALSE,
   wrongRun |-> 0, wrongBefore |-> 0, failedAt |-> 0,
   inWindow |-> FALSE, flipped |-> FALSE, verified |-> FALSE, dup |-> FALSE,
   late |-> FALSE,
   forgotEmail |-> Undefined,
   vuOkFor |-> {}, otpOkFor |-> {}, redeemed |-> {}, issued |-> {}]

\* sessions are numbered in the order of their first submission
SessInOrder(s) == \A t \in Sessions : t < s => sess[t].submits > 0

\* the submissions of the login form so far, over all sessions
RECURSIVE SumSubmits(_)
SumSubmits(S) ==
  IF S = {} THEN 0
  ELSE LET t == CHOOSE t \in S : TRUE IN sess[t].submits + SumSubmits(S \ {t})

Return(c, result) == [c EXCEPT !.pc = "done", !.result = result]

\* the handler has run to its end: its locals are gone
EndHandler(c) ==
  [c EXCEPT !.handler = "none", !.op = "none", !.pc = "idle",
            !.email = "", !.password = "", !.lockRow = NoLock,
            !.userDetails = NoUserRow, !.code = 0, !.ev = NoEv,
            !.otpUser = "-", !.result = NoResult,
            !.sawLock = FALSE, !.compared = FALSE, !.didReset = FALSE,
            !.didOtp = FALSE, !.wrongBefore = 0, !.failedAt = 0,
            !.inWindow = FALSE, !.flipped = FALSE, !.verified = FALSE,
            !.dup = FALSE, !.late = FALSE]

\* ---------------------------------------------------------- validateUser
\* login-main.ts 82-88, entered from LoginPopup.handleSubmit (part_014 20-21)
VuStart(s) ==
  /\ sess[s].ui = "login" /\ sess[s].handler = "none"
  /\ SumSubmits(Sessions) < MaxSubmits
  /\ SessInOrder(s)
  /\ \E raw \in RawEmails, password \in Passwords :
       LET email == Normalize(raw)
           c0 == [sess[s] EXCEPT
                    !.handler = "submit", !.op = "vu",
                    !.submits = sess[s].submits + 1,
                    !.email = email, !.password = password,
                    !.lockRow = NoLock, !.userDetails = NoUserRow,
                    !.result = NoResult,
                    !.sawLock = FALSE, !.compared = FALSE,
                    !.didReset = FALSE, !.didOtp = FALSE,
                    !.vuOkFor = {}, !.otpOkFor = {}]
       IN sess' = [sess EXCEPT ![s] =
             IF email = "" \/ password = ""
             THEN Return(c0, Failure("Missing required fields"))
             ELSE [c0 EXCEPT !.pc = "lock"]]
  /\ UNCHANGED <<now, storeUp, expiresDefault, users, gateVars,
                 login_attempts, email_verifications>>

\* login-main.ts 90-108: the row, and the test of its lock as the row arrives
VuReadLock(s) ==
  /\ sess[s].op = "vu" /\ sess[s].pc = "lock"
  /\ LET lockRow == SelectLockRow(sess[s].email) IN
     sess' = [sess EXCEPT ![s] =
       [sess[s] EXCEPT
          !.lockRow = lockRow,
          !.sawLock = LockAhead(lockRow),
          !.inWindow = (sess[s].wrongBefore > 0
                          /\ now < sess[s].failedAt + LockWindow),
          !.pc = IF LockedOut(lockRow) THEN "lockmsg" ELSE "user"]]
  /\ UNCHANGED <<now, storeUp, expiresDefault, users, gateVars,
                 login_attempts, email_verifications>>

\* login-main.ts 109-115: the clock is read again for the message
VuLockMsg(s) ==
  /\ sess[s].op = "vu" /\ sess[s].pc = "lockmsg"
  /\ sess' = [sess EXCEPT ![s] =
       Return(sess[s], [Failure("Too many attempts") EXCEPT
                          !.minutes = LockMinutes(sess[s].lockRow)])]
  /\ UNCHANGED <<now, storeUp, expiresDefault, users, gateVars,
                 login_attempts, email_verifications>>

\* login-main.ts 118-128: the user by email, then bcrypt.compare
VuReadUser(s) ==
  /\ sess[s].op = "vu" /\ sess[s].pc = "user"
  /\ LET ud == SelectUserDetails(sess[s].email) IN
     sess' = [sess EXCEPT ![s] =
       IF ~ud.present
       THEN Return(sess[s], Failure("No user with that email"))
       ELSE [sess[s] EXCEPT
               !.userDetails = ud, !.compared = TRUE,
               !.pc = IF BcryptCompare(sess[s].password, ud.password_hash)
                      THEN "reset" ELSE "failure"]]
  /\ UNCHANGED <<now, storeUp, expiresDefault, users, gateVars,
                 login_attempts, email_verifications>>

\* the failure returned without the rpc
RpcSkipped(tbl, email) == tbl

\* login-main.ts 132-137: supabaseAdmin.rpc("record_login_failure", {p_email})
RpcRecordLoginFailure(tbl, email) == RecordLoginFailure(tbl, email)

\* login-main.ts 130-150
VuRecordFailure(s) ==
  /\ sess[s].op = "vu" /\ sess[s].pc = "failure"
  /\ login_attempts' = RpcRecordLoginFailure(login_attempts, sess[s].email)
  /\ sess' = [sess EXCEPT ![s] =
       Return([sess[s] EXCEPT !.failedAt = now],
              Failure("Email or password is incorrect."))]
  /\ UNCHANGED <<now, storeUp, expiresDefault, users, gateVars,
                 email_verifications>>

\* login-main.ts 152-160
VuReset(s) ==
  /\ sess[s].op = "vu" /\ sess[s].pc = "reset"
  /\ login_attempts' = ResetLoginAttempts(login_attempts, sess[s].email)
  /\ sess' = [sess EXCEPT ![s].didReset = TRUE, ![s].pc = "otp"]
  /\ UNCHANGED <<now, storeUp, expiresDefault, users, gateVars,
                 email_verifications>>

\* login-main.ts 162-181: a random 6-digit token, its row, the success result
VuInsertOtp(s) ==
  /\ sess[s].op = "vu" /\ sess[s].pc = "otp"
  /\ Len(email_verifications) < MaxOtps
  /\ \E token \in Codes :
       /\ email_verifications' =
            InsertVerification(email_verifications, sess[s].userDetails.id, token)
       /\ sess' = [sess EXCEPT ![s] =
            Return([sess[s] EXCEPT !.didOtp = TRUE,
                                   !.vuOkFor = {sess[s].email}],
                   [NoResult EXCEPT
                      !.set = TRUE, !.success = TRUE, !.OTP = token,
                      !.email = sess[s].userDetails.email,
                      !.twofa_enabled = sess[s].userDetails.twofa_enabled])]
  /\ UNCHANGED <<now, storeUp, expiresDefault, users, gateVars, login_attempts>>

\* the client of the lockout scenario
Caller == 1

\* validateUser called as a server action, one call after the other until
\* one of them succeeds
VuCall(s) ==
  /\ s = Caller
  /\ sess[s].handler = "none" /\ sess[s].op = "none"
  /\ sess[s].vuOkFor = {}
  /\ \E raw \in AttemptEmails, password \in Passwords :
       LET email == Normalize(raw)
           c0 == [sess[s] EXCEPT
                    !.handler = "direct", !.op = "vu",
                    !.wrongBefore = sess[s].wrongRun,
                    !.email = email, !.password = password]
       IN sess' = [sess EXCEPT ![s] =
             IF email = "" \/ password = ""
             THEN Return(c0, Failure("Missing required fields"))
             ELSE [c0 EXCEPT !.pc = "lock"]]
  /\ UNCHANGED <<now, storeUp, expiresDefault, users, gateVars,
                 login_attempts, email_verifications>>

\* the call has returned; the client counts the wrong-password answers it
\* got in a row
VuReturn(s) ==
  /\ sess[s].handler = "direct" /\ sess[s].pc = "done"
  /\ sess' = [sess EXCEPT ![s] =
       [EndHandler(sess[s]) EXCEPT
          !.failedAt = sess[s].failedAt,
          !.wrongRun =
             IF sess[s].result.error = "Email or password is incorrect."
             THEN IF sess[s].wrongRun < MaxAttempts
                  THEN sess[s].wrongRun + 1 ELSE MaxAttempts
             ELSE 0]]
  /\ UNCHANGED <<now, storeUp, expiresDefault, users, gateVars,
                 login_attempts, email_verifications>>

\* login-main.ts 81-88: one validateUser call of a client that asks the
\* server action about an email; its result stays with the client
VuProbe(s) ==
  /\ sess[s].handler = "none" /\ sess[s].op = "none"
  /\ sess[s].submits = 0
  /\ SessInOrder(s)
  /\ \E raw \in AttemptEmails, password \in Passwords :
       LET email == Normalize(raw)
           c0 == [sess[s] EXCEPT
                    !.handler = "direct", !.op = "vu", !.submits = 1,
                    !.email = email, !.password = password]
       IN sess' = [sess EXCEPT ![s] =
             IF email = "" \/ password = ""
             THEN Return(c0, Failure("Missing required fields"))
             ELSE [c0 EXCEPT !.pc = "lock"]]
  /\ UNCHANGED <<now, storeUp, expiresDefault, users, gateVars,
                 login_attempts, email_verifications>>

\* ------------------------------------------------------------ createUser
\* the emails typed into the signup form
SignupEmails == {"a@x.com", "A@X.COM", ""}

\* utilityBar.tsx 23-33: z.email() and the password rule
LoginDetailsSchema(email, password) ==
  /\ email \in {"a@x.com", "A@X.COM", "b@x.com"}
  /\ password = "N3w-pass!"

\* login-main.ts 17-35: "" when the three fields pass
CuRefusal(email, password, password_confirm) ==
  IF email = "" \/ password = "" \/ password_confirm = ""
  THEN "Missing required fields"
  ELSE IF password # password_confirm THEN "Passwords do not match"
  ELSE IF ~LoginDetailsSchema(email, password)
       THEN "Password: 8+ chars, incl. 1 number & 1 special character. Email: valid format."
  ELSE ""

\* the users table refuses a second row with an email it already holds
EmailTaken(tbl, email) ==
  \E u \in UserIds : tbl[u].present /\ tbl[u].email = email

\* the id the store gives to the next users row
NewUserId(tbl) == IF ~tbl["u1"].present THEN "u1" ELSE "u2"

\* login-main.ts 53-57: .insert([{ email, password_hash }]).select("id").single()
InsertUser(tbl, email, hash) ==
  IF ~storeUp \/ EmailTaken(tbl, email)
  THEN [id |-> "-", users |-> tbl]
  ELSE LET id == NewUserId(tbl) IN
       [id |-> id,
        users |-> [tbl EXCEPT ![id] =
                     [present |-> TRUE, id |-> id, email |-> email,
                      password_hash |-> hash, email_verified |-> FALSE,
                      twofa_enabled |-> FALSE]]]

\* the select that finds no user, whatever the table holds
ExistingUserNever(email) == "-"

\* login-main.ts 37-41: .select("id").eq("email", email).maybeSingle()
ExistingUser(email) == SelectUserByEmail(email)

\* login-main.ts 12-35: the fields of the form and their checks
CuStart(s) ==
  /\ sess[s].handler = "none" /\ sess[s].op = "none"
  /\ \E email \in SignupEmails, password \in NewPasswords,
        password_confirm \in NewPasswords :
       LET r == CuRefusal(email, password, password_confirm)
           c0 == [sess[s] EXCEPT
                    !.handler = "signup", !.op = "cu",
                    !.email = email, !.password = password,
                    !.dup = (r = "" /\ EmailTaken(users, email))]
       IN sess' = [sess EXCEPT ![s] =
             IF r # "" THEN Return(c0, Failure(r))
             ELSE [c0 EXCEPT !.pc = "existing"]]
  /\ UNCHANGED <<now, storeUp, expiresDefault, users, gateVars,
                 login_attempts, email_verifications>>

\* login-main.ts 37-49
CuSelect(s) ==
  /\ sess[s].op = "cu" /\ sess[s].pc = "existing"
  /\ sess' = [sess EXCEPT ![s] =
       IF ExistingUser(sess[s].email) # "-"
       THEN Return(sess[s], Failure("Email already in use"))
       ELSE IF ~storeUp
       THEN Return(sess[s], Failure("Error checking email duplicates"))
       ELSE [sess[s] EXCEPT !.pc = "insert"]]
  /\ UNCHANGED <<now, storeUp, expiresDefault, users, gateVars,
                 login_attempts, email_verifications>>

\* login-main.ts 50-62: the hash, the insert and the test of its result
CuInsert(s) ==
  /\ sess[s].op = "cu" /\ sess[s].pc = "insert"
  /\ \E u \in UserIds : ~users[u].present
  /\ LET r == InsertUser(users, sess[s].email, Hash(sess[s].password)) IN
     /\ users' = r.users
     /\ sess' = [sess EXCEPT ![s] =
          IF r.id = "-"
          THEN Return(sess[s], Failure("Failed to create user."))
          ELSE [sess[s] EXCEPT !.otpUser = r.id, !.pc = "otp"]]
  /\ UNCHANGED <<now, storeUp, expiresDefault, gateVars, login_attempts,
                 email_verifications>>

\* login-main.ts 64-78: the code row of the new user and the success result
CuInsertOtp(s) ==
  /\ sess[s].op = "cu" /\ sess[s].pc = "otp"
  /\ Len(email_verifications) < MaxOtps
  /\ \E token \in Codes :
       /\ email_verifications' =
            InsertVerification(email_verifications, sess[s].otpUser, token)
       /\ sess' = [sess EXCEPT ![s] =
            Return([sess[s] EXCEPT !.didOtp = TRUE],
                   [NoResult EXCEPT !.set = TRUE, !.success = TRUE,
                                    !.OTP = token, !.email = sess[s].email])]
  /\ UNCHANGED <<now, storeUp, expiresDefault, users, gateVars, login_attempts>>

\* the createUser call has returned to its caller
CuReturn(s) ==
  /\ sess[s].handler = "signup" /\ sess[s].pc = "done"
  /\ sess' = [sess EXCEPT ![s] = EndHandler(sess[s])]
  /\ UNCHANGED <<now, storeUp, expiresDefault, users, gateVars,
                 login_attempts, email_verifications>>

\* ----------------------------------------------------------- validateOTP
\* .from("email_verifications").select(...).eq("token", OTP).single():
\* exactly one row, else {data: null, error}
SelectVerification(token) ==
  LET hits == {i \in 1..Len(email_verifications) :
                 email_verifications[i].token = token}
  IN IF storeUp /\ Cardinality(hits) = 1
     THEN LET i == CHOOSE i \in hits : TRUE IN
          [found |-> TRUE, error |-> FALSE, row |-> i,
           user_id |-> email_verifications[i].user_id,
           used |-> email_verifications[i].used,
           expires_at |-> email_verifications[i].expires_at]
     ELSE [NoEv EXCEPT !.error = TRUE]

\* .from("email_verifications").update({ used: true }).eq("token", OTP)
MarkUsed(tbl, token) ==
  IF storeUp
  THEN [i \in 1..Len(tbl) |->
          IF tbl[i].token = token THEN [tbl[i] EXCEPT !.used = TRUE] ELSE tbl[i]]
  ELSE tbl

\* .from("users").update({ email_verified: true, twofa_enabled: true }).eq("id", id)
MarkVerified(tbl, id) ==
  IF storeUp /\ id \in DOMAIN tbl /\ tbl[id].present
  THEN [tbl EXCEPT ![id].email_verified = TRUE, ![id].twofa_enabled = TRUE]
  ELSE tbl

\* the call validateOTP(code, email) begins
OtpBegin(c, handler, code, email) ==
  [c EXCEPT !.handler = handler, !.op = "otp", !.pc = "ev",
            !.code = code, !.email = email, !.ev = NoEv, !.otpUser = "-",
            !.result = NoResult, !.flipped = FALSE, !.verified = FALSE,
            !.late = FALSE]

\* email-verification.ts 6-14
OtpReadEv(s) ==
  /\ sess[s].op = "otp" /\ sess[s].pc = "ev"
  /\ LET ev == SelectVerification(sess[s].code) IN
     sess' = [sess EXCEPT ![s].ev = ev,
                          ![s].late = (ev.found /\ ~(now < ev.expires_at)),
                          ![s].pc = "user"]
  /\ UNCHANGED <<now, storeUp, expiresDefault, users, gateVars,
                 login_attempts, email_verifications>>

\* email-verification.ts 22-39: "" when the code is accepted
OtpRefusal(ev, userId) ==
  IF ev.error \/ userId = "-" THEN "Error fetching codes."
  ELSE IF ~ev.found THEN "Code is incorrect."
  ELSE IF ev.user_id # userId THEN "Code incorrect."
  ELSE IF ev.used \/ ev.expires_at < now THEN "Code has expired."
  ELSE ""

\* email-verification.ts 16-39: the user by email, then the tests
OtpReadUser(s) ==
  /\ sess[s].op = "otp" /\ sess[s].pc = "user"
  /\ LET u == SelectUserByEmail(sess[s].email)
         r == OtpRefusal(sess[s].ev, u)
     IN sess' = [sess EXCEPT ![s] =
          IF r # "" THEN Return([sess[s] EXCEPT !.otpUser = u], Failure(r))
          ELSE [sess[s] EXCEPT !.otpUser = u, !.pc = "markused"]]
  /\ UNCHANGED <<now, storeUp, expiresDefault, users, gateVars,
                 login_attempts, email_verifications>>

\* email-verification.ts 41-44
OtpMarkUsed(s) ==
  /\ sess[s].op = "otp" /\ sess[s].pc = "markused"
  /\ email_verifications' = MarkUsed(email_verifications, sess[s].code)
  /\ sess' = [sess EXCEPT ![s].pc = "verified", ![s].flipped = storeUp]
  /\ UNCHANGED <<now, storeUp, expiresDefault, users, gateVars, login_attempts>>

\* email-verification.ts 46-51
OtpUpdateUser(s) ==
  /\ sess[s].op = "otp" /\ sess[s].pc = "verified"
  /\ users' = MarkVerified(users, sess[s].otpUser)
  /\ sess' = [sess EXCEPT ![s] =
       Return([sess[s] EXCEPT
                 !.verified = storeUp,
                 !.otpOkFor = sess[s].otpOkFor \cup {sess[s].otpUser},
                 !.redeemed = sess[s].redeemed \cup {sess[s].ev.row}],
              [NoResult EXCEPT !.set = TRUE, !.success = TRUE])]
  /\ UNCHANGED <<now, storeUp, expiresDefault, gateVars, login_attempts,
                 email_verifications>>

\* ------------------------------------------------------ the login modal
\* login-modal.ts 18: open()
Open(s) ==
  /\ sess[s].ui = "closed" /\ sess[s].handler = "none"
  /\ SumSubmits(Sessions) < MaxSubmits
  /\ sess' = [sess EXCEPT ![s].ui = "login"]
  /\ UNCHANGED <<now, storeUp, expiresDefault, users, gateVars,
                 login_attempts, email_verifications>>

\* what handleSubmit passes to generateLoginCookies: the field the user typed
SubmitEmailTyped(c) == c.email

\* part_014 35: generateLoginCookies(result.email)
SubmitEmail(c) == c.result.email

\* a pair has been issued to the session for the user of that email
Issue(c, email) ==
  LET u == SelectUserByEmail(email) IN
  IF u = "-" THEN c
  ELSE [c EXCEPT !.issued = c.issued \cup
          {[user |-> u,
            afterVu |-> EmailOf(u) \in c.vuOkFor,
            twofa |-> users[u].twofa_enabled,
            afterOtp |-> u \in c.otpOkFor]}]

\* part_014 22-37, after validateUser has returned: the result is kept,
\* then either the code is mailed or generateLoginCookies is called
HsAfterValidate(s) ==
  /\ sess[s].handler = "submit" /\ sess[s].op = "vu" /\ sess[s].pc = "done"
  /\ LET c0 == [EndHandler(sess[s]) EXCEPT !.loginDetails = sess[s].result]
     IN IF sess[s].result.twofa_enabled
        THEN \* part_014 38-55: sendOTP, and the switch only when the mail went out
             /\ \E delivered \in BOOLEAN :
                  sess' = [sess EXCEPT ![s] =
                    IF delivered THEN [c0 EXCEPT !.ui = "email-verif-login"] ELSE c0]
             /\ UNCHANGED <<refresh_tokens, nextJti, minted>>
        ELSE /\ GenerateLoginCookies(SubmitEmail(sess[s]))
             /\ sess' = [sess EXCEPT ![s] =
                  [Issue(c0, SubmitEmail(sess[s])) EXCEPT !.ui = "closed"]]
  /\ UNCHANGED <<now, storeUp, expiresDefault, users, call, rotatedOk,
                 login_attempts, email_verifications>>

\* parseInt of the otp-code field; 0 stands for NaN, which matches no token
ParseInt(str) ==
  CASE str = "111111" -> 111111
    [] str = "222222" -> 222222
    [] OTHER -> 0

\* part_012 67: loginDetails?.email || userCreated?.email || forgotEmail
VerifEmail(c) ==
  IF c.loginDetails.email # Undefined THEN c.loginDetails.email
  ELSE c.forgotEmail

\* part_012 60-67: the typed code, and validateOTP(parseInt(otpCode), email)
HevStart(s) ==
  /\ sess[s].ui \in {"email-verif-login", "email-verif-forgot-pass"}
  /\ sess[s].handler = "none"
  /\ \E typed \in OtpFields :
       sess' = [sess EXCEPT ![s] =
         OtpBegin(sess[s], "verify", ParseInt(typed), VerifEmail(sess[s]))]
  /\ UNCHANGED <<now, storeUp, expiresDefault, users, gateVars,
                 login_attempts, email_verifications>>

\* the handler calling generateLoginCookies whatever validateOTP returned
VerifyIssuesAlways(ui, result) == ui = "email-verif-login"

\* part_012 74: isOpen === "email-verif-login" && result.success
VerifyIssues(ui, result) == ui = "email-verif-login" /\ result.success

\* part_012 68-84, after validateOTP has returned
HevAfterVerify(s) ==
  /\ sess[s].handler = "verify" /\ sess[s].op = "otp" /\ sess[s].pc = "done"
  /\ LET c0 == [EndHandler(sess[s]) EXCEPT !.loginDetails = NoResult,
                                           !.ui = "closed"]
         email == sess[s].loginDetails.email
     IN IF VerifyIssues(sess[s].ui, sess[s].result)
        THEN /\ GenerateLoginCookies(email)
             /\ sess' = [sess EXCEPT ![s] = Issue(c0, email)]
        ELSE IF sess[s].ui = "email-verif-forgot-pass" /\ sess[s].result.success
        THEN \* part_012 78-81: switchToNewPassword(), return
             /\ sess' = [sess EXCEPT ![s] =
                  [EndHandler(sess[s]) EXCEPT !.ui = "new-password"]]
             /\ UNCHANGED <<refresh_tokens, nextJti, minted>>
        ELSE /\ sess' = [sess EXCEPT ![s] = c0]
             /\ UNCHANGED <<refresh_tokens, nextJti, minted>>
  /\ UNCHANGED <<now, storeUp, expiresDefault, users, call, rotatedOk,
                 login_attempts, email_verifications>>

\* ------------------------------------------------------- forgot password
\* part_014 100: the Reset link of the login popup
SwitchToForgotPassword(s) ==
  /\ sess[s].ui = "login" /\ sess[s].handler = "none"
  /\ SessInOrder(s)
  /\ sess' = [sess EXCEPT ![s].ui = "forgot-password"]
  /\ UNCHANGED <<now, storeUp, expiresDefault, users, gateVars,
                 login_attempts, email_verifications>>

\* utilityBar.tsx 43: z.email()
EmailSchema(email) == email \in {"a@x.com", "b@x.com"}

\* utilityBar.tsx 63-79, ForgotPassword.handleSubmit, and generate-otp.ts
\* 5-15: the typed email is kept as forgotEmail, then the user is looked up
FpSubmit(s) ==
  /\ sess[s].ui = "forgot-password" /\ sess[s].handler = "none"
  /\ SumSubmits(Sessions) < MaxSubmits
  /\ SessInOrder(s)
  /\ \E raw \in RawEmails :
       LET c0 == [sess[s] EXCEPT !.submits = sess[s].submits + 1]
           c1 == [c0 EXCEPT !.forgotEmail = raw]
           u == SelectUserByEmail(raw)
       IN sess' = [sess EXCEPT ![s] =
             IF raw = "" THEN c0
             ELSE IF ~EmailSchema(raw) \/ u = "-" THEN c1
             ELSE [c1 EXCEPT !.handler = "forgot", !.op = "gotp",
                             !.pc = "insert", !.otpUser = u]]
  /\ UNCHANGED <<now, storeUp, expiresDefault, users, gateVars,
                 login_attempts, email_verifications>>

\* generate-otp.ts 17-37 and utilityBar.tsx 81-106: the row of a random code,
\* the mail, and the switch to the code form when the mail went out
FpInsert(s) ==
  /\ sess[s].op = "gotp" /\ sess[s].pc = "insert"
  /\ Len(email_verifications) < MaxOtps
  /\ \E token \in Codes, delivered \in BOOLEAN :
       /\ email_verifications' =
            InsertVerification(email_verifications, sess[s].otpUser, token)
       /\ sess' = [sess EXCEPT ![s] =
            [EndHandler(sess[s]) EXCEPT
               !.ui = IF storeUp /\ delivered THEN "email-verif-forgot-pass"
                      ELSE sess[s].ui]]
  /\ UNCHANGED <<now, storeUp, expiresDefault, users, gateVars, login_attempts>>

\* ------------------------------------------------------- updatePassword

\* utilityBar.tsx 35-41: at least 8 characters, a digit and a special character
PasswordChangeSchema(password) == password = "N3w-pass!"

\* login-main.ts 315-334: "" when the two fields pass
UpRefusal(pass1, pass2) ==
  IF pass1 = "" \/ pass2 = "" THEN "Missing required fields."
  ELSE IF pass1 # pass2 THEN "Passwords do not match."
  ELSE IF ~PasswordChangeSchema(pass1)
       THEN "Password must incl. 1 number, 1 special char and min 8 char."
  ELSE ""

\* .from("users").update({ password_hash }).eq("id", userId)
UpdateHashById(tbl, id, hash) ==
  IF storeUp /\ id \in DOMAIN tbl /\ tbl[id].present
  THEN [tbl EXCEPT ![id].password_hash = hash]
  ELSE tbl

\* .from("users").update({ password_hash }).eq("email", email)
UpdateHashByEmail(tbl, email, hash) ==
  IF storeUp
  THEN [u \in DOMAIN tbl |->
          IF tbl[u].present /\ tbl[u].email = email
          THEN [tbl[u] EXCEPT !.password_hash = hash] ELSE tbl[u]]
  ELSE tbl

\* the row an update by id reaches
RowById(id) ==
  IF storeUp /\ id \in DOMAIN users /\ users[id].present THEN id ELSE "-"

\* login-main.ts 362-368 and 381, once userId is known: the update by id
UpWriteById(c, id) ==
  [rec |-> Finish([c EXCEPT !.op = "up", !.userId = id,
                            !.target = RowById(id),
                            !.changed = RowById(id) # "-"],
                  IF storeUp THEN "ok" ELSE "Updating password error."),
   users |-> UpdateHashById(users, id, c.hash)]

\* login-main.ts 369-381: loggedIn = false, the update by email
UpByEmail(c, s, email) ==
  IF email = Undefined
  THEN [rec |-> Finish(c, "No email provided."), users |-> users]
  ELSE [rec |-> Finish([c EXCEPT
                          !.target = SelectUserByEmail(email),
                          !.changed = SelectUserByEmail(email) # "-",
                          !.otpOk = SelectUserByEmail(email) \in sess[s].otpOkFor],
                       IF storeUp THEN "ok" ELSE "Error updaing password."),
        users |-> UpdateHashByEmail(users, email, c.hash)]

\* the answers of the update when userId is undefined: no row has that id;
\* the store reports an error or an empty update
UndefinedIdOutcomes == {"ok", "Updating password error."}

\* one change of password is followed
NoUpdateYet == \A q \in Procs : call[q].op = "idle"

\* login-main.ts 310-361, updatePassword called as a server action with any
\* arguments and any cookies: the two fields, then by email, or by the user
\* of the access token, or into refreshAccessToken
UpStart(p) ==
  /\ NoUpdateYet
  /\ InOrder(p)
  /\ \E s \in Sessions, pass1 \in NewPasswords, pass2 \in NewPasswords :
       LET c0 == [Idle EXCEPT !.op = "up", !.hash = Hash(pass1)] IN
       IF UpRefusal(pass1, pass2) # ""
       THEN /\ call' = [call EXCEPT ![p] =
                 Finish([Idle EXCEPT !.op = "up"], UpRefusal(pass1, pass2))]
            /\ UNCHANGED users
       ELSE \/ \E email \in Emails \cup {Undefined} :
                 /\ call' = [call EXCEPT ![p] = UpByEmail(c0, s, email).rec]
                 /\ users' = UpByEmail(c0, s, email).users
            \/ \E access \in Cookies, refresh \in Cookies :
                 LET c1 == [c0 EXCEPT !.hadAccess = access.kind # "none",
                                      !.caller = "up"]
                 IN
                 IF access.kind # "none" /\ JwtVerify(access)
                 THEN /\ call' = [call EXCEPT ![p] =
                           UpWriteById([c1 EXCEPT !.accessOk = TRUE],
                                       access.userId).rec]
                      /\ users' = UpWriteById(c1, access.userId).users
                 ELSE IF refresh.kind = "none" \/ ~JwtVerify(refresh)
                 THEN /\ UNCHANGED users
                      /\ IF c1.hadAccess
                         THEN call' = [call EXCEPT ![p] = Finish(c1, "Session Expired")]
                         ELSE \E o \in UndefinedIdOutcomes :
                                call' = [call EXCEPT ![p] = Finish(c1, o)]
                 ELSE /\ UNCHANGED users
                      /\ call' = [call EXCEPT ![p] =
                           [c1 EXCEPT !.op = "refresh", !.pc = "read",
                                      !.caller = "up", !.refresh = refresh,
                                      !.userId = refresh.userId,
                                      !.jti = refresh.jti]]
  /\ UNCHANGED <<now, storeUp, expiresDefault, loginVars, refresh_tokens,
                 nextJti, minted, rotatedOk>>

\* login-main.ts 349-368, after refreshAccessToken has returned: with an
\* access cookie its failure ends the call; without one the test is
\* !refreshResult, never true, and the update runs with userId undefined
UpResume(p) ==
  /\ call[p].op = "refresh" /\ call[p].pc = "done" /\ call[p].caller = "up"
  /\ IF call[p].outcome = "ok"
     THEN /\ call' = [call EXCEPT ![p] =
               UpWriteById([call[p] EXCEPT !.refreshed = TRUE], call[p].userId).rec]
          /\ users' = UpWriteById(call[p], call[p].userId).users
     ELSE /\ UNCHANGED users
          /\ IF call[p].hadAccess
             THEN call' = [call EXCEPT ![p] =
                    Finish([call[p] EXCEPT !.op = "up"], "Session Expired")]
             ELSE \E o \in UndefinedIdOutcomes :
                    call' = [call EXCEPT ![p] = Finish([call[p] EXCEPT !.op = "up"], o)]
  /\ UNCHANGED <<now, storeUp, expiresDefault, loginVars, refresh_tokens,
                 nextJti, minted, rotatedOk>>

\* utilityBar.tsx 130-141, NewPassword.changePassword:
\* updatePassword(formData, false, forgotEmail), close() on success,
\* setForgotEmail(null)
ChangePassword(s) ==
  /\ sess[s].ui = "new-password" /\ sess[s].handler = "none"
  /\ \E p \in Procs, pass1 \in NewPasswords, pass2 \in NewPasswords :
       /\ NoUpdateYet
       /\ InOrder(p)
       /\ LET c0 == [Idle EXCEPT !.op = "up", !.hash = Hash(pass1)]
              r == IF UpRefusal(pass1, pass2) # ""
                   THEN [rec |-> Finish([Idle EXCEPT !.op = "up"],
                                        UpRefusal(pass1, pass2)),
                         users |-> users]
                   ELSE UpByEmail(c0, s, sess[s].forgotEmail)
          IN /\ call' = [call EXCEPT ![p] = r.rec]
             /\ users' = r.users
             /\ sess' = [sess EXCEPT ![s].forgotEmail = Undefined,
                                     ![s].ui = IF r.rec.outcome = "ok" THEN "closed"
                                               ELSE sess[s].ui]
  /\ UNCHANGED <<now, storeUp, expiresDefault, refresh_tokens, nextJti, minted,
                 rotatedOk, login_attempts, email_verifications>>

\* -------------------------------------------------------------- the clock
Tick ==
  /\ now < MaxTime
  /\ now' = now + 1
  /\ UNCHANGED <<storeUp, expiresDefault, users, gateVars, loginVars>>

\* ------------------------------------------------------------------ Init
UserRow(u, twofa) ==
  [present |-> TRUE, id |-> u, email |-> EmailOf(u),
   password_hash |-> Hash(PasswordOf(u)), email_verified |-> TRUE,
   twofa_enabled |-> twofa]

InitGate ==
  /\ now = 0
  /\ storeUp = TRUE
  /\ expiresDefault \in {"ttl", "null", "invalid"}
  /\ users = [u \in UserIds |-> IF u = "u1" THEN UserRow(u, FALSE) ELSE NoUserRow]
  /\ refresh_tokens = [j \in 1..MaxJti |-> NoRow]
  /\ nextJti = 0
  /\ minted = {}
  /\ call = [p \in Procs |-> Idle]
  /\ rotatedOk = {}
  /\ login_attempts = [e \in AttemptEmails |-> NoLock]
  /\ email_verifications = <<>>
  /\ sess = [s \in Sessions |-> SessIdle]

NextGate ==
  \/ Tick
  \/ LoginDone
  \/ LogoutUser
  \/ \E p \in Procs : MwStart(p)
  \/ \E p \in Procs : MwRead(p)
  \/ \E p \in Procs : MwCheck1(p)
  \/ \E p \in Procs : MwCheck2(p)
  \/ \E p \in Procs : MwInsert(p)
  \/ \E p \in Procs : MwRevoke(p)
  \/ \E p \in Procs : RfStart(p)
  \/ \E p \in Procs : RfRead(p)
  \/ \E p \in Procs : RfCheck(p)
  \/ \E p \in Procs : RfInsert(p)
  \/ \E p \in Procs : RfRevoke(p)

SpecGate == InitGate /\ [][NextGate]_vars

\* ------------------------------------- the gate over a store that may fail
InitFault ==
  /\ now = 0
  /\ storeUp = TRUE
  /\ expiresDefault = "ttl"
  /\ users = [u \in UserIds |-> IF u = "u1" THEN UserRow(u, FALSE) ELSE NoUserRow]
  /\ refresh_tokens = [j \in 1..MaxJti |-> NoRow]
  /\ nextJti = 0
  /\ minted = {}
  /\ call = [p \in Procs |-> Idle]
  /\ rotatedOk = {}
  /\ login_attempts = [e \in AttemptEmails |-> NoLock]
  /\ email_verifications = <<>>
  /\ sess = [s \in Sessions |-> SessIdle]

NextFault ==
  \/ Tick
  \/ StoreFlip
  \/ LoginDone
  \/ \E p \in Procs : LogoutCall(p)
  \/ \E p \in Procs : MwStart(p)
  \/ \E p \in Procs : MwRead(p)
  \/ \E p \in Procs : MwCheck1(p)
  \/ \E p \in Procs : MwCheck2(p)
  \/ \E p \in Procs : MwInsert(p)
  \/ \E p \in Procs : MwRevoke(p)
  \/ \E p \in Procs : RfStart(p)
  \/ \E p \in Procs : RfRead(p)
  \/ \E p \in Procs : RfCheck(p)
  \/ \E p \in Procs : RfInsert(p)
  \/ \E p \in Procs : RfRevoke(p)

SpecFault == InitFault /\ [][NextFault]_vars

\* rows that earlier failed logins have left behind: four failures, or a lock
FourFailures == [present |-> TRUE, attempts |-> MaxAttempts - 1, locked |-> FALSE,
                 locked_until |-> 0]
Locked == [present |-> TRUE, attempts |-> MaxAttempts, locked |-> TRUE,
           locked_until |-> LockWindow]

InitLogin ==
  /\ now = 0
  /\ storeUp = TRUE
  /\ expiresDefault = "ttl"
  /\ \E twofa \in BOOLEAN :
       users = [u \in UserIds |-> IF u = "u1" THEN UserRow(u, twofa) ELSE NoUserRow]
  /\ refresh_tokens = [j \in 1..MaxJti |-> NoRow]
  /\ nextJti = 0
  /\ minted = {}
  /\ call = [p \in Procs |-> Idle]
  /\ rotatedOk = {}
  /\ \E r \in {NoLock, FourFailures, Locked} :
       login_attempts = [e \in AttemptEmails |-> IF e = "a@x.com" THEN r ELSE NoLock]
  /\ email_verifications = <<>>
  /\ sess = [s \in Sessions |-> SessIdle]

NextLogin ==
  \/ Tick
  \/ \E s \in Sessions : Open(s)
  \/ \E s \in Sessions : VuStart(s)
  \/ \E s \in Sessions : VuReadLock(s)
  \/ \E s \in Sessions : VuLockMsg(s)
  \/ \E s \in Sessions : VuReadUser(s)
  \/ \E s \in Sessions : VuRecordFailure(s)
  \/ \E s \in Sessions : VuReset(s)
  \/ \E s \in Sessions : VuInsertOtp(s)
  \/ \E s \in Sessions : HsAfterValidate(s)
  \/ \E s \in Sessions : HevStart(s)
  \/ \E s \in Sessions : OtpReadEv(s)
  \/ \E s \in Sessions : OtpReadUser(s)
  \/ \E s \in Sessions : OtpMarkUsed(s)
  \/ \E s \in Sessions : OtpUpdateUser(s)
  \/ \E s \in Sessions : HevAfterVerify(s)

SpecLogin == InitLogin /\ [][NextLogin]_vars

\* --------------------------- one client calling validateUser again and again
InitLock ==
  /\ now = 0
  /\ storeUp = TRUE
  /\ expiresDefault = "ttl"
  /\ users = [u \in UserIds |-> IF u = "u1" THEN UserRow(u, FALSE) ELSE NoUserRow]
  /\ refresh_tokens = [j \in 1..MaxJti |-> NoRow]
  /\ nextJti = 0
  /\ minted = {}
  /\ call = [p \in Procs |-> Idle]
  /\ rotatedOk = {}
  /\ login_attempts = [e \in AttemptEmails |-> NoLock]
  /\ email_verifications = <<>>
  /\ sess = [s \in Sessions |-> SessIdle]

NextLock ==
  \/ Tick
  \/ \E s \in Sessions : VuCall(s)
  \/ \E s \in Sessions : VuReadLock(s)
  \/ \E s \in Sessions : VuLockMsg(s)
  \/ \E s \in Sessions : VuReadUser(s)
  \/ \E s \in Sessions : VuRecordFailure(s)
  \/ \E s \in Sessions : VuReset(s)
  \/ \E s \in Sessions : VuInsertOtp(s)
  \/ \E s \in Sessions : VuReturn(s)

SpecLock == InitLock /\ [][NextLock]_vars

\* ------------------- two clients, each asking validateUser about an email
NextProbe ==
  \/ Tick
  \/ \E s \in Sessions : VuProbe(s)
  \/ \E s \in Sessions : VuReadLock(s)
  \/ \E s \in Sessions : VuLockMsg(s)
  \/ \E s \in Sessions : VuReadUser(s)
  \/ \E s \in Sessions : VuRecordFailure(s)
  \/ \E s \in Sessions : VuReset(s)
  \/ \E s \in Sessions : VuInsertOtp(s)

SpecProbe == InitLogin /\ [][NextProbe]_vars

\* ------------------------------------------- two clients signing up
InitSignup ==
  /\ now = 0
  /\ storeUp = TRUE
  /\ expiresDefault = "ttl"
  /\ users = [u \in UserIds |-> NoUserRow]
  /\ refresh_tokens = [j \in 1..MaxJti |-> NoRow]
  /\ nextJti = 0
  /\ minted = {}
  /\ call = [p \in Procs |-> Idle]
  /\ rotatedOk = {}
  /\ login_attempts = [e \in AttemptEmails |-> NoLock]
  /\ email_verifications = <<>>
  /\ sess = [s \in Sessions |-> SessIdle]

NextSignup ==
  \/ Tick
  \/ \E s \in Sessions : CuStart(s)
  \/ \E s \in Sessions : CuSelect(s)
  \/ \E s \in Sessions : CuInsert(s)
  \/ \E s \in Sessions : CuInsertOtp(s)
  \/ \E s \in Sessions : CuReturn(s)

SpecSignup == InitSignup /\ [][NextSignup]_vars

\* ------------------------------------------------- redemption of a code
\* a session whose login has passed validateUser for a user with 2FA: the
\* code is in the store and the modal asks for it (part_014 33, 49)
Pending(u, token) ==
  [SessIdle EXCEPT
     !.ui = "email-verif-login", !.submits = 1, !.vuOkFor = {EmailOf(u)},
     !.loginDetails = [NoResult EXCEPT !.set = TRUE, !.success = TRUE,
                                       !.OTP = token, !.email = EmailOf(u),
                                       !.twofa_enabled = TRUE]]

\* the row that login left in email_verifications
PendingRow(u, token) ==
  [token |-> token, user_id |-> u, used |-> FALSE, expires_at |-> OtpTTL]

\* two browser sessions have logged in, each waits for its code
InitOtp ==
  /\ now = 0
  /\ storeUp = TRUE
  /\ expiresDefault = "ttl"
  /\ users = [u \in UserIds |-> UserRow(u, TRUE)]
  /\ refresh_tokens = [j \in 1..MaxJti |-> NoRow]
  /\ nextJti = 0
  /\ minted = {}
  /\ call = [p \in Procs |-> Idle]
  /\ rotatedOk = {}
  /\ login_attempts = [e \in AttemptEmails |-> NoLock]
  /\ \E u1 \in UserIds, u2 \in UserIds, t1 \in Codes, t2 \in Codes :
       /\ email_verifications = <<PendingRow(u1, t1), PendingRow(u2, t2)>>
       /\ sess = [s \in Sessions |->
                    IF s = 1 THEN Pending(u1, t1) ELSE Pending(u2, t2)]

NextOtp ==
  \/ Tick
  \/ \E s \in Sessions : HevStart(s)
  \/ \E s \in Sessions : OtpReadEv(s)
  \/ \E s \in Sessions : OtpReadUser(s)
  \/ \E s \in Sessions : OtpMarkUsed(s)
  \/ \E s \in Sessions : OtpUpdateUser(s)
  \/ \E s \in Sessions : HevAfterVerify(s)

SpecOtp == InitOtp /\ [][NextOtp]_vars

\* the same two sessions over a store that may fail
NextOtpFault == NextOtp \/ StoreFlip

SpecOtpFault == InitOtp /\ [][NextOtpFault]_vars

\* ------- one session redeems its code while another client logs in
InitRace ==
  /\ now = 0
  /\ storeUp = TRUE
  /\ expiresDefault = "ttl"
  /\ users = [u \in UserIds |-> UserRow(u, TRUE)]
  /\ refresh_tokens = [j \in 1..MaxJti |-> NoRow]
  /\ nextJti = 0
  /\ minted = {}
  /\ call = [p \in Procs |-> Idle]
  /\ rotatedOk = {}
  /\ \E r \in {NoLock, Locked} :
       login_attempts = [e \in AttemptEmails |-> IF e = "a@x.com" THEN r ELSE NoLock]
  /\ \E u \in UserIds, t \in Codes :
       /\ email_verifications = <<PendingRow(u, t)>>
       /\ sess = [s \in Sessions |-> IF s = 1 THEN Pending(u, t) ELSE SessIdle]

NextRace ==
  \/ Tick
  \/ \E s \in Sessions : HevStart(s)
  \/ \E s \in Sessions : OtpReadEv(s)
  \/ \E s \in Sessions : OtpReadUser(s)
  \/ \E s \in Sessions : OtpMarkUsed(s)
  \/ \E s \in Sessions : OtpUpdateUser(s)
  \/ \E s \in Sessions : HevAfterVerify(s)
  \/ \E s \in Sessions : VuProbe(s)
  \/ \E s \in Sessions : VuReadLock(s)
  \/ \E s \in Sessions : VuLockMsg(s)
  \/ \E s \in Sessions : VuReadUser(s)
  \/ \E s \in Sessions : VuRecordFailure(s)
  \/ \E s \in Sessions : VuReset(s)
  \/ \E s \in Sessions : VuInsertOtp(s)

SpecRace == InitRace /\ [][NextRace]_vars

\* ---------------- changing a password: logged in, forgotten, or called bare
InitPassword ==
  /\ now = 0
  /\ storeUp = TRUE
  /\ expiresDefault = "ttl"
  /\ users = [u \in UserIds |-> UserRow(u, FALSE)]
  /\ refresh_tokens = [j \in 1..MaxJti |-> NoRow]
  /\ nextJti = 0
  /\ minted = {}
  /\ call = [p \in Procs |-> Idle]
  /\ rotatedOk = {}
  /\ login_attempts = [e \in AttemptEmails |-> NoLock]
  /\ email_verifications = <<>>
  /\ sess = [s \in Sessions |-> SessIdle]

NextPassword ==
  \/ Tick
  \/ LoginDone
  \/ \E s \in Sessions : Open(s)
  \/ \E s \in Sessions : SwitchToForgotPassword(s)
  \/ \E s \in Sessions : FpSubmit(s)
  \/ \E s \in Sessions : FpInsert(s)
  \/ \E s \in Sessions : HevStart(s)
  \/ \E s \in Sessions : OtpReadEv(s)
  \/ \E s \in Sessions : OtpReadUser(s)
  \/ \E s \in Sessions : OtpMarkUsed(s)
  \/ \E s \in Sessions : OtpUpdateUser(s)
  \/ \E s \in Sessions : HevAfterVerify(s)
  \/ \E s \in Sessions : ChangePassword(s)
  \/ \E p \in Procs : UpStart(p)
  \/ \E p \in Procs : RfRead(p)
  \/ \E p \in Procs : RfCheck(p)
  \/ \E p \in Procs : RfInsert(p)
  \/ \E p \in Procs : RfRevoke(p)
  \/ \E p \in Procs : UpResume(p)

SpecPassword == InitPassword /\ [][NextPassword]_vars

\* ======================================================== the gate's claims
MwCalls == {p \in Procs : call[p].op = "mw" /\ call[p].protected}
RfCalls == {p \in Procs : call[p].op = "refresh"}
Done(p) == call[p].pc = "done"
SetCookies(p) == call[p].setAccess # NoToken \/ call[p].setRefresh # NoToken
Rotated(p) ==
  /\ call[p].setAccess.kind = "jwt" /\ call[p].setRefresh.kind = "jwt"
  /\ call[p].setRefresh.jti = call[p].jtiNew
  /\ call[p].jtiNew # call[p].jti
  /\ call[p].inserted
  /\ refresh_tokens[call[p].jtiNew].present
  /\ refresh_tokens[call[p].jti].revoked

\* C3: a refreshAccessToken call that starts after another call with the same
\* refresh token has returned success sets no cookie, inserts no row and ends
\* with the revoked (or expired/invalid) failure; and a call that found the
\* record present and not revoked ends in success with the rotation done.
C3_SecondRefreshRefused ==
  \A p \in RfCalls :
    /\ call[p].afterSuccess =>
         /\ ~SetCookies(p) /\ ~call[p].inserted /\ ~call[p].revokedOld
         /\ call[p].jtiNew = NoJti
         /\ Done(p) => call[p].outcome \in {"revoked", "expired", "invalid"}
    /\ (Done(p) /\ call[p].read /\ call[p].data.present /\ ~call[p].data.revoked)
         => call[p].outcome = "ok" /\ Rotated(p)

C3_Witness ==
  \E p \in RfCalls :
    /\ call[p].afterSuccess /\ Done(p) /\ call[p].outcome = "revoked"
    /\ \E q \in RfCalls : q # p /\ call[q].outcome = "ok"
                            /\ call[q].refresh = call[p].refresh

\* C4: two overlapping rotations of the same refresh token never both insert a
\* new record (never both issue a pair) for the one presented rotation id.
C4_ConcurrentRotationsExclusive ==
  \A p, q \in Procs :
    (p # q /\ call[q].concurrent /\ call[p].jti # NoJti
       /\ call[p].jti = call[q].jti)
    => ~(call[p].inserted /\ call[q].inserted)

\* C7: a request to a protected path without a refresh cookie is redirected,
\* whatever its access token, and the store is neither read nor written.
C7_NoRefreshCookieRedirects ==
  \A p \in MwCalls :
    call[p].refresh.kind = "none" =>
      /\ Done(p) /\ call[p].outcome = "redirect"
      /\ ~call[p].read /\ ~call[p].inserted /\ ~call[p].revokedOld
      /\ ~SetCookies(p)

C7_Witness ==
  \E p \in MwCalls :
    /\ call[p].refresh.kind = "none" /\ call[p].accessOk
    /\ Done(p) /\ call[p].outcome = "redirect"

\* C8: every finished request to a protected path has been allowed or
\* redirected, and one whose access token did not verify and whose refresh
\* path did not rotate has been redirected.
C8_AlwaysAllowOrRedirect ==
  \A p \in MwCalls :
    Done(p) =>
      /\ call[p].outcome \in {"allow", "redirect"}
      /\ (~call[p].accessOk /\ ~SetCookies(p)) => call[p].outcome = "redirect"

\* C9: a request that presents the refresh token of a rotation id already
\* marked revoked, with no valid access token, is redirected and has created
\* no token, cookie or record.
C9_RevokedTokenDenied ==
  \A p \in MwCalls :
    (Done(p) /\ call[p].sawRevoked /\ ~call[p].accessOk) =>
      /\ call[p].outcome = "redirect"
      /\ ~SetCookies(p) /\ ~call[p].inserted

\* C10 as stated: with a valid access token and a valid refresh token the
\* request is allowed, two rotated cookies are set and the old id is revoked.
C10_ValidAccessRotates ==
  \A p \in MwCalls :
    (Done(p) /\ call[p].accessOk /\ call[p].refreshOk) =>
      call[p].outcome = "allow" /\ Rotated(p)

\* C10 amended: with an access token that verifies (and a refresh cookie) the
\* request is allowed with no cookie set and nothing read or written; with an
\* access token that is absent or does not verify and a refresh token that
\* verifies and whose record is found with expires_at still ahead at both
\* tests, the request is allowed, the response carries the two rotated
\* cookies and the previous rotation id is revoked in the store.
C10_ExpiredAccessRotates ==
  \A p \in MwCalls :
    Done(p) =>
      /\ (call[p].accessOk /\ call[p].refresh.kind # "none") =>
           /\ call[p].outcome = "allow"
           /\ ~SetCookies(p) /\ ~call[p].read /\ ~call[p].inserted
           /\ ~call[p].revokedOld
      /\ (~call[p].accessOk /\ call[p].refreshOk /\ call[p].stillValid) =>
           call[p].outcome = "allow" /\ Rotated(p)

C10_Witness ==
  \E p \in MwCalls :
    /\ Done(p) /\ ~call[p].accessOk /\ call[p].refreshOk /\ call[p].stillValid
    /\ call[p].outcome = "allow" /\ Rotated(p)

\* C11: a request to a protected path with a refresh cookie and an access
\* token that verifies is allowed at once: no store read, no insert, no
\* revocation, no new rotation id and no cookie on the response.
C11_ValidAccessTouchesNothing ==
  \A p \in MwCalls :
    (call[p].accessOk /\ call[p].refresh.kind # "none") =>
      /\ Done(p) /\ call[p].outcome = "allow"
      /\ ~call[p].read /\ ~call[p].inserted /\ ~call[p].revokedOld
      /\ call[p].jtiNew = NoJti /\ ~SetCookies(p)

\* C11: such a request has been allowed while its refresh token's record was
\* already revoked: the store was not asked
C11_Witness ==
  \E p \in MwCalls :
    /\ call[p].accessOk /\ call[p].refresh.kind = "jwt" /\ call[p].sawRevoked
    /\ Done(p) /\ call[p].outcome = "allow" /\ ~call[p].read

LogoutCalls == {p \in Procs : call[p].op = "logout"}

\* what the table must be after a logoutUser call that presented r
AfterLogout(r) ==
  IF r.kind # "none" /\ JwtVerify(r) /\ storeUp
     /\ r.jti \in DOMAIN refresh_tokens /\ refresh_tokens[r.jti].present
  THEN [refresh_tokens EXCEPT ![r.jti].revoked = TRUE]
  ELSE refresh_tokens

\* C12: every logoutUser call ends with both cookies emptied and the redirect
\* to home, whatever the refresh cookie and whether or not the store answers;
\* and the call changes the table in one way only: when the refresh token
\* verifies and the store answers, the record of its rotation id is marked
\* revoked; no other record changes.
C12_LogoutClearsAndRevokesOne ==
  /\ [](\A p \in LogoutCalls :
          /\ Done(p) /\ call[p].outcome = "redirect"
          /\ call[p].setAccess = Emptied /\ call[p].setRefresh = Emptied)
  /\ [][\A p \in Procs :
          (call[p].op = "idle" /\ call'[p].op = "logout") =>
             refresh_tokens' = AfterLogout(call'[p].refresh)]_vars

\* C12: a logout with a refresh token whose record was current has ended in
\* the redirect with the cookies emptied although the store did not answer
C12_Witness ==
  \E p \in LogoutCalls :
    /\ Done(p) /\ call[p].refreshOk /\ ~call[p].revokedOld
    /\ call[p].outcome = "redirect" /\ call[p].setRefresh = Emptied
    /\ ~refresh_tokens[call[p].jti].revoked

\* C17: a middleware request or refreshAccessToken call that has ended with
\* cookies on its response, or with the success result, has inserted the
\* refresh_tokens row of the rotation id its new refresh token carries.
C17_CookiesOnlyAfterInsert ==
  \A p \in MwCalls \cup RfCalls :
    (Done(p) /\ (SetCookies(p) \/ call[p].outcome = "ok")) =>
       /\ call[p].inserted
       /\ call[p].jtiNew \in DOMAIN refresh_tokens
       /\ refresh_tokens[call[p].jtiNew].present

\* the record read has an expires_at and the clock has reached it
ExpiryPassed(data) ==
  data.present /\ data.expires_at.k = "ts" /\ data.expires_at.t <= now

\* the refusals the record read calls for: none when it is to be rotated
RefusalsDue(data) ==
  IF ~data.present THEN {"expired"}
  ELSE (IF ExpiryPassed(data) THEN {"expired"} ELSE {})
       \cup (IF data.revoked THEN {"revoked"} ELSE {})

\* C18: refreshAccessToken answers with the expired-session result when the
\* token does not verify, when no record matches its rotation id and user id
\* and when the record's expiry has passed, and with the revoked-session
\* result when the record is revoked; a call that ends in a refusal has set
\* no cookie, inserted no row and updated none.
C18_RefusalsAndNoEffect ==
  /\ [](\A p \in RfCalls :
          (Done(p) /\ call[p].outcome # "ok") =>
             /\ ~SetCookies(p) /\ ~call[p].inserted /\ ~call[p].revokedOld
             /\ call[p].jtiNew = NoJti)
  /\ [](\A p \in RfCalls :
          (Done(p) /\ ~call[p].read /\ call[p].refresh.kind # "none") =>
             call[p].outcome \in {"invalid", "expired"})
  /\ [][\A p \in Procs :
          (/\ call[p].op = "refresh" /\ call[p].pc = "check"
           /\ call'[p].pc # "check"
           /\ RefusalsDue(call[p].data) # {}) =>
             /\ call'[p].pc = "done"
             /\ call'[p].outcome \in RefusalsDue(call[p].data)]_vars

\* a rotation that reported success: refreshAccessToken returned
\* { success: true }, or the middleware let the request through with new cookies
RotationOk(p) ==
  /\ Done(p)
  /\ \/ call[p].op = "refresh" /\ call[p].outcome = "ok"
     \/ call[p].op = "mw" /\ call[p].outcome = "allow" /\ SetCookies(p)

\* C19: every rotation that reported success has inserted one row under a
\* new id with the user_id of the row it consumed, has set revoked on the
\* consumed row and hands out tokens of that same user; and no step deletes
\* a refresh_tokens row, changes its user_id or sets revoked back to false.
C19_RotationInsertsAndRevokes ==
  /\ [](\A p \in Procs :
          RotationOk(p) =>
             /\ call[p].jtiNew # call[p].jti
             /\ call[p].jtiNew \in DOMAIN refresh_tokens
             /\ refresh_tokens[call[p].jtiNew].present
             /\ refresh_tokens[call[p].jtiNew].user_id = call[p].data.user_id
             /\ refresh_tokens[call[p].jti].revoked
             /\ call[p].setRefresh.userId = call[p].userId)
  /\ [][\A j \in DOMAIN refresh_tokens :
          refresh_tokens[j].present =>
             /\ refresh_tokens'[j].present
             /\ refresh_tokens'[j].user_id = refresh_tokens[j].user_id
             /\ refresh_tokens[j].revoked => refresh_tokens'[j].revoked]_vars

\* C27: the middleware allows a request to a protected path only on an
\* access token that verifies, or, when the token it relies on is a refresh
\* token (in the refresh cookie or in the access cookie), after it has found
\* the record of that token in the store, not revoked.
C27_RefreshTrustNeedsRecord ==
  \A p \in MwCalls :
    (Done(p) /\ call[p].protected /\ call[p].outcome = "allow") =>
       \/ call[p].accessOk /\ ~call[p].refreshAsAccess
       \/ call[p].read /\ call[p].data.present /\ ~call[p].data.revoked

\* ============================================== claims on login and OTP
\* the validateUser calls that have returned
VuDone(s) == sess[s].op = "vu" /\ sess[s].pc = "done"
\* some token, row or rotation id exists
AnythingIssued ==
  \/ minted # {}
  \/ nextJti # 0
  \/ \E j \in DOMAIN refresh_tokens : refresh_tokens[j].present

\* C1: a validateUser call that finds locked_until strictly in the future
\* makes no password comparison, no reset of the attempts and no OTP insert,
\* and returns the 'Too many attempts' refusal, whatever the password
C1_LockedOutRefused ==
  \A s \in Sessions :
    (sess[s].op = "vu" /\ sess[s].sawLock) =>
      /\ ~sess[s].compared /\ ~sess[s].didReset /\ ~sess[s].didOtp
      /\ sess[s].pc \in {"lockmsg", "done"}
      /\ sess[s].pc = "done" =>
           /\ ~sess[s].result.success
           /\ sess[s].result.error = "Too many attempts"

\* C1: a locked email was tried with the right password and refused
C1_Witness ==
  \E s \in Sessions :
    /\ VuDone(s) /\ sess[s].sawLock
    /\ sess[s].email = "a@x.com" /\ sess[s].password = PasswordOf("u1")
    /\ sess[s].result.error = "Too many attempts"
    /\ email_verifications = <<>>

\* C2: no verification-code row is redeemed with success by two calls
C2_OneRedemptionPerCode ==
  \A s, t \in Sessions :
    s # t => sess[s].redeemed \cap sess[t].redeemed = {}

SixthCall(s) ==
  /\ VuDone(s) /\ sess[s].handler = "direct"
  /\ sess[s].wrongBefore >= MaxAttempts
  /\ sess[s].email = "a@x.com" /\ sess[s].password # ""

\* C13 as stated: after five consecutive wrong-password calls for an email
\* the sixth call for it returns the lockout refusal, whatever its password
\* and whenever it is made.
C13_SixthCallRefused ==
  \A s \in Sessions :
    SixthCall(s) => sess[s].result.error = "Too many attempts"

\* C13: after five consecutive wrong-password calls for an email, a sixth
\* call for it that tests the lock before the lockout window of the fifth
\* failure has run out returns the lockout refusal, also with the correct
\* password.
C13_SixthCallRefusedInWindow ==
  \A s \in Sessions :
    (SixthCall(s) /\ sess[s].inWindow) =>
       /\ sess[s].result.error = "Too many attempts"
       /\ ~sess[s].result.success /\ ~sess[s].compared

\* C13: the sixth call carried the correct password and was refused
C13_Witness ==
  \E s \in Sessions :
    /\ SixthCall(s) /\ sess[s].inWindow
    /\ sess[s].password = PasswordOf("u1")
    /\ sess[s].result.error = "Too many attempts"

\* C14: whenever validateUser returns the lockout refusal, the minutes N it
\* reports, the ceiling of the lock time remaining when line 109 reads the
\* clock, are at least 1, also when the clock has advanced since the lock
\* comparison of lines 104-108.
C14_MinutesAtLeastOne ==
  \A s \in Sessions :
    (VuDone(s) /\ sess[s].result.error = "Too many attempts") =>
       sess[s].result.minutes >= 1

\* the row of e is as the reset leaves it
RowReset(tbl, e) ==
  tbl[e].present => (tbl[e].attempts = 0 /\ ~tbl[e].locked)

\* C15: a validateUser call that returns success for E has run the reset,
\* and the reset leaves the login_attempts row of E, if there is one, with
\* attempts = 0 and no locked_until; a call that fails has run no reset, and
\* no step other than the reset of a call on its way to success lowers the
\* attempts or clears the lock of a row.
C15_SuccessResetsFailureNever ==
  /\ [](\A s \in Sessions : VuDone(s) => (sess[s].result.success <=> sess[s].didReset))
  /\ [][\A s \in Sessions :
          (sess[s].pc = "reset" /\ sess'[s].pc # "reset") =>
             RowReset(login_attempts', sess[s].email)]_vars
  /\ [][\A e \in AttemptEmails :
          (\/ login_attempts'[e].attempts < login_attempts[e].attempts
           \/ login_attempts[e].locked /\ ~login_attempts'[e].locked) =>
             \E s \in Sessions :
               /\ sess[s].op = "vu" /\ sess[s].pc = "reset" /\ sess[s].email = e
               /\ sess'[s].pc = "otp"]_vars

\* C15: a login succeeded for an email that had four failures on record and
\* its row now shows none
C15_Witness ==
  \E s \in Sessions :
    /\ VuDone(s) /\ sess[s].result.success /\ sess[s].didReset
    /\ sess[s].lockRow.present /\ sess[s].lockRow.attempts > 0
    /\ login_attempts[sess[s].email].present
    /\ login_attempts[sess[s].email].attempts = 0
    /\ ~login_attempts[sess[s].email].locked

\* C16: a validateOTP call that has ended has applied the flip of the used
\* flag and the update of the user both or neither, and it returns success
\* only when both were applied.
C16_FlipAndUserEffectTogether ==
  \A s \in Sessions :
    (sess[s].op = "otp" /\ sess[s].pc = "done") =>
       /\ sess[s].flipped <=> sess[s].verified
       /\ sess[s].result.success => (sess[s].flipped /\ sess[s].verified)

UpCalls == {p \in Procs : call[p].op = "up"}

\* the caller of the updatePassword call has authenticated as the user whose
\* row the call has changed
AuthenticatedAsTarget(p) ==
  \/ call[p].accessOk /\ call[p].userId = call[p].target
  \/ call[p].refreshed /\ call[p].userId = call[p].target
  \/ call[p].otpOk

\* C20: an updatePassword call changes the password_hash of a user only when
\* its caller holds an access token that verifies for that user, or a
\* refresh token that refreshAccessToken accepted for that user, or has had
\* a validateOTP success for a code issued to that user.
C20_PasswordChangeNeedsAuth ==
  \A p \in UpCalls :
    (Done(p) /\ call[p].changed) => AuthenticatedAsTarget(p)

\* C21: a validateUser call that matches the password of a user whose
\* twofa_enabled is false returns without having changed the
\* email_verifications table.
C21_OtpOnlyWithTwofa ==
  [][\A s \in Sessions :
       (/\ sess[s].op = "vu" /\ sess[s].pc = "otp"
        /\ sess'[s].pc = "done" /\ sess'[s].result.success
        /\ ~sess[s].userDetails.twofa_enabled)
       => email_verifications' = email_verifications]_vars

\* C22: a validateOTP call that redeems a login code or a forgot-password
\* code (the modal is in "email-verif-login" or "email-verif-forgot-pass")
\* leaves twofa_enabled of every user as it was: a user with 2FA off stays
\* with 2FA off.
C22_RedemptionKeepsTwofa ==
  [][\A s \in Sessions :
       (/\ sess[s].op = "otp" /\ sess[s].pc = "verified"
        /\ sess'[s].pc = "done" /\ sess'[s].result.success
        /\ sess[s].ui \in {"email-verif-login", "email-verif-forgot-pass"})
       => \A u \in UserIds :
            users'[u].twofa_enabled = users[u].twofa_enabled]_vars

\* the validateUser call has ended for an email that was not locked and
\* carried a password
UnlockedAnswer(s) ==
  /\ VuDone(s) /\ ~sess[s].sawLock
  /\ sess[s].email # "" /\ sess[s].password # ""

\* C23: two validateUser calls on unlocked emails with the same password,
\* one for an email no user has and one for a user's email with a wrong
\* password, return the same result.
C23_UnknownEmailLikeBadPassword ==
  \A s, t \in Sessions :
    (/\ UnlockedAnswer(s) /\ UnlockedAnswer(t)
     /\ sess[s].password = sess[t].password
     /\ ~sess[s].userDetails.present
     /\ sess[t].userDetails.present /\ sess[t].compared
     /\ ~BcryptCompare(sess[t].password, sess[t].userDetails.password_hash))
    => sess[s].result = sess[t].result

\* C24: every users row holds an email that is its own trim+lowercase
\* normal form, and the lookup validateUser makes for the email of the row,
\* or for a case or whitespace variant of it, finds that row.
C24_EmailsStoredNormalized ==
  \A u \in UserIds :
    users[u].present =>
      /\ users[u].email = Normalize(users[u].email)
      /\ \A raw \in SignupEmails \cup RawEmails :
           Normalize(raw) = Normalize(users[u].email)
             => SelectUserDetails(Normalize(raw)).id = u

C26_ExpiredCodeRefused ==
  \A s \in Sessions :
    (sess[s].op = "otp" /\ sess[s].late) =>
       /\ sess[s].pc \in {"user", "done"}
       /\ ~sess[s].flipped /\ ~sess[s].verified
       /\ sess[s].pc = "done" => ~sess[s].result.success

\* C28: while login_attempts holds for an email a locked_until that is still
\* ahead, no step of any validateUser call clears or shortens it, and no
\* validateUser call for that email returns success.
C28_LockHoldsUnderConcurrency ==
  [][\A e \in AttemptEmails :
       LockAhead(login_attempts[e]) =>
         /\ login_attempts'[e].locked
         /\ login_attempts'[e].locked_until >= login_attempts[e].locked_until
         /\ \A s \in Sessions :
              (/\ sess[s].op = "vu" /\ sess[s].email = e
               /\ sess[s].pc # "done" /\ sess'[s].pc = "done")
              => ~sess'[s].result.success]_vars

\* C29: an updatePassword call in logged-in mode that finds no access cookie
\* and whose refreshAccessToken fails returns the 'Session expired.' failure
\* and has changed no users row.
C29_NoCookieFailedRefreshExpires ==
  \A p \in UpCalls :
    (Done(p) /\ call[p].caller = "up" /\ ~call[p].hadAccess
       /\ ~call[p].refreshed) =>
       /\ call[p].outcome = "Session expired."
       /\ ~call[p].changed

\* C30: the step in which a validateOTP call that goes on to succeed flips
\* the used flag changes exactly one email_verifications row, the row the
\* call has read and tested (unused, not expired, owned by the user of the
\* email), and leaves every other row as it was, the rows that carry the
\* same 6-digit value included.
C30_FlipsOnlyItsRow ==
  [][\A s \in Sessions :
       (/\ sess[s].op = "otp" /\ sess[s].pc = "markused"
        /\ sess'[s].pc = "verified")
       => /\ Len(email_verifications') = Len(email_verifications)
          /\ \A i \in 1..Len(email_verifications) :
               IF i = sess[s].ev.row
               THEN /\ ~email_verifications[i].used
                    /\ email_verifications'[i].used
                    /\ email_verifications[i].user_id = sess[s].otpUser
               ELSE email_verifications'[i] = email_verifications[i]]_vars
====
